---------------------------- MODULE Spec2Model ----------------------------
(***************************************************************************)
(* A model of FluorSpec: the spectrum corrector (ApplyCorrFileToRaw), the  *)
(* local baseline fit (CalcStraightLine), the reabsorption estimate        *)
(* (CalcReabsProb) and the two-measurement quantum yield (CalculateQY_2MM) *)
(* of src/Analyse.py, over the records PTI_Data of src/PTI_Data.py builds. *)
(*                                                                         *)
(* Numbers.  The code computes in numpy float64.  A float is modelled as   *)
(* an exact fraction <<n, d>> in lowest terms with d >= 0, where d = 0     *)
(* encodes the non-finite values: <<1,0>> is +inf, <<-1,0>> is -inf and    *)
(* <<0,0>> is NaN, so that x/0 is +-inf or NaN as numpy yields (a warning, *)
(* no exception).  Rounding and the sign of zero are not modelled.         *)
(* An uncertainty u is carried as its square: np.sqrt(x) for x >= 0 is     *)
(* represented by x, and np.power(u, 2) gives x back.                      *)
(*                                                                         *)
(* Indices are the code's 0-based indices; sequence A holds element i of   *)
(* the code at A[i+1].                                                     *)
(***************************************************************************)
EXTENDS Integers, Sequences, FiniteSets, TLC

VARIABLES data, ret

vars == <<data, ret>>

---------------------------------------------------------------------------
(* Bounds of the model.                                                    *)

\* samples per spectrum (NumSamples of a file)
NumSamples == 10
\* largest peak height, in counts, of a raw spectrum
MaxCount == 1
\* largest background passed to the corrector
MaxBckgnd == 1
\* largest averaging window of a baseline fit
MaxAvgLen == 4

---------------------------------------------------------------------------
(* float64 arithmetic.                                                     *)

Abs(x) == IF x < 0 THEN -x ELSE x

Sign(x) == IF x < 0 THEN -1 ELSE IF x > 0 THEN 1 ELSE 0

RECURSIVE GCD(_, _)
GCD(a, b) == IF b = 0 THEN a ELSE GCD(b, a % b)

\* the float n/d
Flt(n, d) ==
    IF d = 0 THEN <<Sign(n), 0>>
    ELSE LET g == GCD(Abs(n), Abs(d))
         IN  <<(Sign(d) * n) \div g, Abs(d) \div g>>

NaN == <<0, 0>>

Zero == <<0, 1>>

One == <<1, 1>>

IsFinite(a) == a[2] # 0

\* (the common factors are divided out before multiplying, which keeps the
\* integers of the fractions small; the value is the same)
FAdd(a, b) ==
    IF a[2] = 0 /\ b[2] = 0 THEN (IF a = b THEN a ELSE NaN)
    ELSE IF a[2] = 0 \/ b[2] = 0 THEN Flt(a[1] * b[2] + b[1] * a[2], 0)
    ELSE LET g == GCD(a[2], b[2])
         IN  Flt(a[1] * (b[2] \div g) + b[1] * (a[2] \div g), (a[2] \div g) * b[2])

FNeg(a) == <<-a[1], a[2]>>

FSub(a, b) == FAdd(a, FNeg(b))

FMul(a, b) ==
    IF a[1] = 0 \/ b[1] = 0 \/ a[2] = 0 \/ b[2] = 0
    THEN Flt(Sign(a[1]) * Sign(b[1]), Sign(a[2]) * Sign(b[2]))
    ELSE LET g == GCD(Abs(a[1]), b[2])
             h == GCD(Abs(b[1]), a[2])
         IN  <<(a[1] \div g) * (b[1] \div h), (a[2] \div h) * (b[2] \div g)>>

FInv(b) == IF b[1] < 0 THEN <<-b[2], -b[1]>> ELSE <<b[2], b[1]>>

FDiv(a, b) == FMul(a, FInv(b))

FSq(a) == FMul(a, a)

\* the == of floats: NaN equals nothing, itself included
FEq(a, b) == a # NaN /\ b # NaN /\ a = b

---------------------------------------------------------------------------
(* Python lists and numpy arrays.                                          *)

\* None, and an attribute or optional argument that holds no value
None == <<>>

\* the bound i of a slice of a sequence of length n, as Python clips it
SliceBound(i, n) ==
    IF i < 0 THEN (IF i + n < 0 THEN 0 ELSE i + n)
    ELSE IF i > n THEN n ELSE i

\* A[lo:hi]
PySlice(A, lo, hi) ==
    IF SliceBound(lo, Len(A)) < SliceBound(hi, Len(A))
    THEN SubSeq(A, SliceBound(lo, Len(A)) + 1, SliceBound(hi, Len(A)))
    ELSE <<>>

\* whether A[i] is an element (else IndexError)
InRange(A, i) == i < Len(A) /\ i >= -Len(A)

\* A[i], a negative i counting from the end
PyItem(A, i) == IF i < 0 THEN A[i + Len(A) + 1] ELSE A[i + 1]

RECURSIVE FSum(_)
FSum(A) == IF A = <<>> THEN Zero ELSE FAdd(Head(A), FSum(Tail(A)))

\* np.mean: NaN for an empty array
np_mean(A) == FDiv(FSum(A), Flt(Len(A), 1))

np_subtract(A, B) == [i \in 1..Len(A) |-> FSub(A[i], B[i])]

np_multiply(A, B) == [i \in 1..Len(A) |-> FMul(A[i], B[i])]

np_divide(A, B) == [i \in 1..Len(A) |-> FDiv(A[i], B[i])]

np_add(A, B) == [i \in 1..Len(A) |-> FAdd(A[i], B[i])]

np_square(A) == [i \in 1..Len(A) |-> FSq(A[i])]

\* an array op with a scalar operand (numpy broadcasts it)
Fill(A, x) == [i \in 1..Len(A) |-> x]

\* np.interp(x, xp, fp, left, right) for an increasing xp
np_interp(x, xp, fp, left, right) ==
    IF x < xp[1] THEN left
    ELSE IF x > xp[Len(xp)] THEN right
    ELSE IF x = xp[Len(xp)] THEN fp[Len(xp)]
    ELSE LET j == CHOOSE k \in 1..(Len(xp) - 1) : xp[k] <= x /\ x < xp[k + 1]
         IN  FAdd(FMul(FDiv(FSub(fp[j + 1], fp[j]), Flt(xp[j + 1] - xp[j], 1)),
                       Flt(x - xp[j], 1)),
                  fp[j])

\* np.interp of every wavelength of axis X
np_interp_all(X, xp, fp, left, right) ==
    [i \in 1..Len(X) |-> np_interp(X[i], xp, fp, left, right)]

\* a list of numbers as floats
AsFloats(W) == [i \in 1..Len(W) |-> Flt(W[i], 1)]

\* L.index(v): [err, idx], idx the first position (from 0) of an element
\* equal to v, ValueError when there is none
ListIndex(L, v) ==
    IF \A i \in 1..Len(L) : L[i] # v THEN [err |-> "ValueError", idx |-> 0]
    ELSE [err |-> "",
          idx |-> (CHOOSE i \in 1..Len(L) : L[i] = v /\ \A k \in 1..(i - 1) : L[k] # v) - 1]

\* WL.index(np.interp(x, WL, WL))
WLIndex(WL, x) ==
    ListIndex(AsFloats(WL),
              np_interp(x, WL, AsFloats(WL), Flt(WL[1], 1), Flt(WL[Len(WL)], 1)))

---------------------------------------------------------------------------
(* PTI_Data records.                                                       *)

\* a member's .value: Enum('FileType', 'Unknown Session Trace Group') numbers
\* its members from 1
FileTypeValue(ft) ==
    CASE ft = "Unknown" -> 1
      [] ft = "Session" -> 2
      [] ft = "Trace"   -> 3
      [] ft = "Group"   -> 4

RunTypeValue(rt) ==
    CASE rt = "Unknown"     -> 1
      [] rt = "Emission"    -> 2
      [] rt = "Excitation"  -> 3
      [] rt = "Synchronous" -> 4

\* the uncertainty of raw counts, squared: the counts themselves (Poisson)
RawVariance(counts) == counts

\* the fields the corrector and the QY calculator rely on beside those the
\* reader sets: the raw uncertainties, and the corrected fields, None until
\* a correction is registered
DerivedFields(trace, specraw) ==
    [UTrace |-> RawVariance(trace), USpecRaw |-> RawVariance(specraw),
     SpecCorrected |-> None, USpecCorrected |-> None]

\* PTI_Data(fname) for a file of type ft, run type rt, wavelengths WL, raw
\* counts and (in a session file) the instrument's own corrected column.
\* A field holding None here is an attribute the constructor never assigns.
PTI_Data(ft, rt, WL, counts, spec) ==
    IF ft = "Session"
    THEN [FileType |-> ft, RunType |-> rt, WL |-> WL, Trace |-> None,
          SpecRaw |-> counts, Spec |-> spec] @@ DerivedFields(None, counts)
    ELSE IF FileTypeValue(ft) > 1
    THEN [FileType |-> ft, RunType |-> rt, WL |-> WL, Trace |-> counts,
          SpecRaw |-> None, Spec |-> None] @@ DerivedFields(counts, None)
    ELSE [FileType |-> "Unknown", RunType |-> "Unset", WL |-> None, Trace |-> None,
          SpecRaw |-> None, Spec |-> None] @@ DerivedFields(None, None)

\* data.RegisterCorrSpec(CorrData, UCorrData)
RegisterCorrSpec(d, CorrData, UCorrData) ==
    [d EXCEPT !.SpecCorrected = CorrData, !.USpecCorrected = UCorrData]

---------------------------------------------------------------------------
(* The corrector.                                                          *)

\* the keys of FluorSpecReader.CorrFiles
CorrFiles == {"emcorri", "emcorr-sphere", "emcorr-sphere-quanta", "excorr", "default"}

\* the run type _ReadHdrGroup gives a correction file, from its name
GroupRunType(key) == IF key = "excorr" THEN "Excitation" ELSE "Emission"

\* the curve each correction file holds (the files are data of the
\* installation; these stand for them): its wavelengths and response values
CorrFileWL(key) ==
    CASE key = "emcorri"              -> <<0, 18>>
      [] key = "emcorr-sphere"        -> <<0, 18>>
      [] key = "emcorr-sphere-quanta" -> <<1, 3, 19>>
      [] key = "excorr"               -> <<2, 12>>

CorrFileTrace(key) ==
    CASE key = "emcorri"              -> <<One, One>>
      [] key = "emcorr-sphere"        -> <<Flt(2, 1), Flt(2, 1)>>
      [] key = "emcorr-sphere-quanta" -> <<One, Flt(3, 1), Flt(3, 1)>>
      [] key = "excorr"               -> <<One, One>>

\* GetCorrData falling back to the first curve for a key it does not know
GetCorrDataOrFirstCurve(key) ==
    IF key = "default" THEN [err |-> "TypeError", corr |-> None]
    ELSE IF key \notin CorrFiles
    THEN [err |-> "",
          corr |-> <<PTI_Data("Group", GroupRunType("emcorri"), CorrFileWL("emcorri"),
                              CorrFileTrace("emcorri"), None)>>]
    ELSE [err |-> "",
          corr |-> <<PTI_Data("Group", GroupRunType(key), CorrFileWL(key),
                              CorrFileTrace(key), None)>>]

\* GetCorrData(key): [err, corr]; corr = None when the key is unknown, and
\* PTI_Data(None) raises TypeError for 'default', whose file is None
GetCorrData(key) ==
    IF key \notin CorrFiles THEN [err |-> "", corr |-> None]
    ELSE IF key = "default" THEN [err |-> "TypeError", corr |-> None]
    ELSE [err |-> "",
          corr |-> <<PTI_Data("Group", GroupRunType(key), CorrFileWL(key),
                              CorrFileTrace(key), None)>>]

\* the spectrum a correction would start from if a correction already on
\* the record were taken as its input
RawFieldsCompounding(d) ==
    IF FileTypeValue(d.FileType) > 1
    THEN (IF d.Trace = None THEN [err |-> "AttributeError"]
          ELSE IF d.SpecCorrected # None
          THEN [err |-> "", rawspec |-> d.SpecCorrected, uspec |-> d.USpecCorrected]
          ELSE [err |-> "", rawspec |-> d.Trace, uspec |-> d.UTrace])
    ELSE IF FileTypeValue(d.FileType) = 1
    THEN (IF d.SpecRaw = None THEN [err |-> "AttributeError"]
          ELSE [err |-> "", rawspec |-> d.SpecRaw, uspec |-> d.USpecRaw])
    ELSE [err |-> "BadFile"]

\* lines 61-69: the raw spectrum and its uncertainty, by file type
RawFields(d) ==
    IF FileTypeValue(d.FileType) > 1
    THEN (IF d.Trace = None THEN [err |-> "AttributeError"]
          ELSE [err |-> "", rawspec |-> d.Trace, uspec |-> d.UTrace])
    ELSE IF FileTypeValue(d.FileType) = 1
    THEN (IF d.SpecRaw = None THEN [err |-> "AttributeError"]
          ELSE [err |-> "", rawspec |-> d.SpecRaw, uspec |-> d.USpecRaw])
    ELSE [err |-> "BadFile"]

\* lines 70-81 without the comparison of the run types
CorrValuesAnyRunType(d, key, isliteral, rawspec) ==
    IF ~(key = "default" /\ isliteral)
    THEN LET got == GetCorrData(key)
         IN  IF got.err # "" THEN [err |-> got.err]
             ELSE IF got.corr = None THEN [err |-> "NotCorrecting"]
             ELSE [err |-> "",
                   CorrVals |-> np_interp_all(d.WL, got.corr[1].WL,
                                              got.corr[1].Trace, Zero, Zero)]
    ELSE [err |-> "TypeError"]

\* lines 70-81: the correction values at the data's wavelengths.
\* isliteral: whether `key is not 'default'` finds key to be the literal's
\* own object (an equal string that is another object is not).
CorrValues(d, key, isliteral, rawspec) ==
    IF ~(key = "default" /\ isliteral)
    THEN LET got == GetCorrData(key)
         IN  IF got.err # "" THEN [err |-> got.err]
             ELSE IF got.corr = None THEN [err |-> "NotCorrecting"]
             ELSE IF RunTypeValue(d.RunType) # RunTypeValue(got.corr[1].RunType)
             THEN [err |-> "TypeMismatch"]
             ELSE [err |-> "",
                   CorrVals |-> np_interp_all(d.WL, got.corr[1].WL,
                                              got.corr[1].Trace, Zero, Zero)]
    ELSE \* [1 for i in len(rawspec)]: an int is not iterable
         [err |-> "TypeError"]

\* lines 83-88: background subtraction and the curve
CurveCorrected(rawspec, uspec, bckgnd, CorrVals) ==
    [CorrData  |-> np_multiply(np_subtract(rawspec, Fill(rawspec, Flt(bckgnd, 1))),
                               CorrVals),
     UCorrData |-> np_multiply(np_add(uspec, Fill(uspec, Flt(bckgnd, 1))),
                               np_square(CorrVals))]

\* lines 102-109: the division by a synchronous scan
ExtraCorrected(d, c, x) ==
    LET F == AsFloats(x.WL)
        extracorr_vals == np_interp_all(d.WL, x.WL, x.Spec, x.Spec[1], x.Spec[Len(F)])
        CorrData_extracorr == np_divide(c.CorrData, extracorr_vals)
        Raw_extracorr == np_interp_all(d.WL, x.WL, x.SpecRaw, x.SpecRaw[1],
                                       x.SpecRaw[Len(F)])
        \* (extracorr_vals * sqrt(Raw)/Raw)^2
        Uextracorr == np_multiply(np_square(extracorr_vals),
                                  np_divide(Raw_extracorr, np_square(Raw_extracorr)))
    IN  [CorrData  |-> CorrData_extracorr,
         UCorrData |-> np_add(np_divide(c.UCorrData, np_square(extracorr_vals)),
                              np_multiply(np_square(np_divide(CorrData_extracorr,
                                                              extracorr_vals)),
                                          Uextracorr))]

\* lines 118-120: the scale factor
Scaled(c, factor) ==
    IF factor # None
    THEN [CorrData  |-> np_multiply(c.CorrData, Fill(c.CorrData, Flt(factor[1], 1))),
          UCorrData |-> np_multiply(c.UCorrData,
                                    Fill(c.UCorrData, FSq(Flt(factor[1], 1))))]
    ELSE c

\* what a call of ApplyCorrFileToRaw that ends early returns and leaves:
\* no value, and the record as it was
Failed(d, why) == [outcome |-> why, value |-> None, data |-> d]

\* lines 121-122: the corrected spectrum c is registered on the record and
\* returned
Registered(d, c) ==
    [outcome |-> "ok", value |-> <<c.CorrData, c.UCorrData>>,
     data |-> RegisterCorrSpec(d, c.CorrData, c.UCorrData)]

\* ApplyCorrFileToRaw registering the curve-corrected spectrum as soon as it
\* is computed, before extracorr is looked at
ApplyCorrRegisteringEarly(d, key, isliteral, bckgnd, extracorr, factor) ==
    LET raw == RawFields(d)
        cv  == CorrValues(d, key, isliteral, raw.rawspec)
    IN  IF raw.err # "" THEN Failed(d, raw.err)
        ELSE IF cv.err # "" THEN Failed(d, cv.err)
        ELSE IF extracorr # None /\ extracorr[1].RunType # "Synchronous"
        THEN Failed(Registered(d, CurveCorrected(raw.rawspec, raw.uspec, bckgnd,
                                                 cv.CorrVals)).data,
                    "ExtraNotSync")
        ELSE IF extracorr # None /\ extracorr[1].Spec = None
        THEN Failed(d, "AttributeError")
        ELSE IF extracorr # None
        THEN Registered(d, Scaled(ExtraCorrected(d,
                 CurveCorrected(raw.rawspec, raw.uspec, bckgnd, cv.CorrVals),
                 extracorr[1]), factor))
        ELSE Registered(d, Scaled(
                 CurveCorrected(raw.rawspec, raw.uspec, bckgnd, cv.CorrVals), factor))

\* ApplyCorrFileToRaw(data, key, bckgnd, extracorr, factor=factor):
\* [outcome, value, data], data being the record after the call
ApplyCorrFileToRaw(d, key, isliteral, bckgnd, extracorr, factor) ==
    LET raw == RawFields(d)
        cv  == CorrValues(d, key, isliteral, raw.rawspec)
    IN  IF raw.err # "" THEN Failed(d, raw.err)
        ELSE IF cv.err # "" THEN Failed(d, cv.err)
        ELSE IF extracorr # None /\ extracorr[1].RunType # "Synchronous"
        THEN Failed(d, "ExtraNotSync")
        ELSE IF extracorr # None /\ extracorr[1].Spec = None
        THEN Failed(d, "AttributeError")
        ELSE IF extracorr # None
        THEN Registered(d, Scaled(ExtraCorrected(d,
                 CurveCorrected(raw.rawspec, raw.uspec, bckgnd, cv.CorrVals),
                 extracorr[1]), factor))
        ELSE Registered(d, Scaled(
                 CurveCorrected(raw.rawspec, raw.uspec, bckgnd, cv.CorrVals), factor))

---------------------------------------------------------------------------
(* The baseline fit.                                                       *)

\* line 238: np.add(np.multiply(WL, gradient), const)
LineValues(WL, gradient, const) ==
    [i \in 1..Len(WL) |-> FAdd(FMul(Flt(WL[i], 1), gradient), const)]

\* lines 232-238 from the two means: the gradient, the constant and the line
LineThrough(WL, hi, lo, startidx, endidx, half) ==
    LET gradient == FDiv(FSub(hi, lo),
                         Flt(PyItem(WL, endidx + half) - PyItem(WL, startidx - half), 1))
    IN  LineValues(WL, gradient, FSub(hi, FMul(gradient, Flt(PyItem(WL, endidx), 1))))

\* CalcStraightLine taking a spec that is not set for an empty one: a flat
\* baseline of zeros
CalcStraightLineOfUnset(WL, spec, startidx, endidx, avglen) ==
    IF spec = None THEN [err |-> "", val |-> Fill(WL, Zero)]
    ELSE IF ~InRange(WL, endidx + (avglen \div 2))
            \/ ~InRange(WL, startidx - (avglen \div 2))
            \/ ~InRange(WL, endidx)
    THEN [err |-> "IndexError", val |-> None]
    ELSE [err |-> "",
          val |-> LineThrough(WL, np_mean(PySlice(spec, endidx, endidx + avglen)),
                              np_mean(PySlice(spec, startidx - avglen, startidx)),
                              startidx, endidx, avglen \div 2)]

\* CalcStraightLine(WL, spec, startidx, endidx, avglen): [err, val].
\* Subscripting a spec of None raises TypeError; a slice never raises (it is
\* clipped, and empty when its bounds cross); an item of WL out of range
\* raises IndexError; the divisions are numpy's.
CalcStraightLine(WL, spec, startidx, endidx, avglen) ==
    IF spec = None THEN [err |-> "TypeError", val |-> None]
    ELSE IF ~InRange(WL, endidx + (avglen \div 2))
            \/ ~InRange(WL, startidx - (avglen \div 2))
            \/ ~InRange(WL, endidx)
    THEN [err |-> "IndexError", val |-> None]
    ELSE [err |-> "",
          val |-> LineThrough(WL, np_mean(PySlice(spec, endidx, endidx + avglen)),
                              np_mean(PySlice(spec, startidx - avglen, startidx)),
                              startidx, endidx, avglen \div 2)]

---------------------------------------------------------------------------
(* The reabsorption estimate.                                              *)

\* a call of CalcReabsProb that raises
ReabsRaised(why) == [err |-> why, w |-> None, Uw |-> None]

\* sum(np.divide(spec[lo:hi], spec[n]))
NormalisedSum(spec, lo, hi, n) ==
    FSum(np_divide(PySlice(spec, lo, hi), Fill(PySlice(spec, lo, hi), PyItem(spec, n))))

\* sum(np.power(np.divide(spec[lo:hi], spec[n]), 2))
NormalisedSquares(spec, lo, hi, n) ==
    FSum(np_square(np_divide(PySlice(spec, lo, hi),
                             Fill(PySlice(spec, lo, hi), PyItem(spec, n)))))

\* lines 268-270, the uncertainties squared; the record keeps the dilute
\* integral and its uncertainty beside the returned pair
ReabsFromIntegrals(integ_Sphere, Uinteg_sphere, integ_Dilute, Uinteg_Dilute) ==
    [err |-> "", integ_Dilute |-> integ_Dilute, Uinteg_Dilute |-> Uinteg_Dilute,
     w   |-> FSub(One, FDiv(integ_Sphere, integ_Dilute)),
     Uw  |-> FAdd(FMul(FInv(FSq(integ_Dilute)), Uinteg_sphere),
                  FMul(FSq(FDiv(integ_Sphere, FSq(integ_Dilute))), Uinteg_Dilute))]

\* lines 259-270 from the resolved indices; Uinteg_Dilute is summed between
\* the sphere's indices (line 266).  sum() of an empty slice is the int 0,
\* and 1/(0**2) raises ZeroDivisionError.
ReabsFromIndices(spherespec, dilutespec, StartIdx_Sphere, EndIdx_Sphere, StartIdx_Dilute, EndIdx_Dilute, normWL) ==
    IF ~InRange(spherespec, normWL) \/ ~InRange(dilutespec, normWL)
    THEN ReabsRaised("IndexError")
    ELSE IF PySlice(dilutespec, StartIdx_Dilute, EndIdx_Dilute) = <<>>
    THEN ReabsRaised("ZeroDivisionError")
    ELSE ReabsFromIntegrals(
             NormalisedSum(spherespec, StartIdx_Sphere, EndIdx_Sphere, normWL),
             NormalisedSquares(spherespec, StartIdx_Sphere, EndIdx_Sphere, normWL),
             NormalisedSum(dilutespec, StartIdx_Dilute, EndIdx_Dilute, normWL),
             NormalisedSquares(dilutespec, StartIdx_Sphere, EndIdx_Sphere, normWL))

\* CalcReabsProb(sphere, em_start, em_end, normWL, Em_BL_Fluor, dilute):
\* [err, w, Uw]
CalcReabsProb(sphere, em_start, em_end, normWL, Em_BL_Fluor, dilute) ==
    IF WLIndex(sphere.WL, em_start).err # ""
    THEN ReabsRaised(WLIndex(sphere.WL, em_start).err)
    ELSE IF WLIndex(sphere.WL, em_end).err # ""
    THEN ReabsRaised(WLIndex(sphere.WL, em_end).err)
    ELSE IF WLIndex(dilute.WL, em_start).err # ""
    THEN ReabsRaised(WLIndex(dilute.WL, em_start).err)
    ELSE IF WLIndex(dilute.WL, em_end).err # ""
    THEN ReabsRaised(WLIndex(dilute.WL, em_end).err)
    ELSE ReabsFromIndices(np_subtract(sphere.SpecCorrected, Em_BL_Fluor),
                          dilute.SpecCorrected,
                          WLIndex(sphere.WL, em_start).idx, WLIndex(sphere.WL, em_end).idx,
                          WLIndex(dilute.WL, em_start).idx, WLIndex(dilute.WL, em_end).idx,
                          normWL)

---------------------------------------------------------------------------
(* The quantum yield.                                                      *)

\* a call of CalculateQY_2MM that raises: no value
QYRaised(why) == [outcome |-> why, value |-> None]

\* lines 175-182: [err, w, Uw]; w and Uw are None when no branch assigns them
ReabsWeight(fluor, em_start, em_end, Em_BL_Fluor, dilute, normWL) ==
    IF dilute # None /\ normWL # None
    THEN IF dilute[1].SpecCorrected # None
         THEN IF WLIndex(dilute[1].WL, normWL[1]).err # ""
              THEN ReabsRaised(WLIndex(dilute[1].WL, normWL[1]).err)
              ELSE CalcReabsProb(fluor, em_start, em_end,
                                 WLIndex(dilute[1].WL, normWL[1]).idx, Em_BL_Fluor,
                                 dilute[1])
         ELSE [err |-> "", w |-> None, Uw |-> None]
    ELSE [err |-> "", w |-> Zero, Uw |-> Zero]

\* sum(np.subtract(spec[lo:hi], baseline[lo:hi]))
WindowSum(spec, baseline, lo, hi) ==
    FSum(np_subtract(PySlice(spec, lo, hi), PySlice(baseline, lo, hi)))

\* sum(np.power(uspec[lo:hi], 2)), uspec being held squared
WindowVariance(uspec, lo, hi) == FSum(PySlice(uspec, lo, hi))

\* lines 184-186, the uncertainties squared
RawQY(N_emitted, UN_emitted, N_Tot_empty, UN_Tot_empty, N_Tot_sample, UN_Tot_sample) ==
    LET D == FSub(N_Tot_empty, N_Tot_sample)
    IN  [QY  |-> FDiv(N_emitted, D),
         UQY |-> FAdd(FMul(FInv(FSq(D)), UN_emitted),
                      FMul(FSq(FDiv(FDiv(N_emitted, D), D)),
                           FAdd(UN_Tot_empty, UN_Tot_sample)))]

\* 1 - w + w*QY
QYDenominator(QY, w) == FAdd(FSub(One, w), FMul(w, QY))

\* (x**2)*u.  (When u is 0 and x is finite the product is 0 whatever the
\* square is, and the square, which may outgrow the integers of the
\* fractions, is not formed; the value is the same.)
SquareTimes(x, u) == IF u = Zero /\ IsFinite(x) THEN Zero ELSE FMul(FSq(x), u)

\* lines 187-190: <<QY, UQY>> as returned
WeightedQY(QY, UQY, w, Uw) ==
    LET QY_w == FDiv(QY, QYDenominator(QY, w))
    IN  <<QY_w,
          FAdd(SquareTimes(FDiv(QY_w, QY), UQY),
               SquareTimes(FDiv(FMul(FSub(One, QY), QY_w), QYDenominator(QY, w)), Uw))>>

\* lines 184-229 from the sums and the weight; the record keeps the
\* intermediate quantities beside the returned value
QYFromSums(N_emitted, N_Tot_empty, N_Tot_sample, raw, rw) ==
    [outcome |-> "ok", value |-> WeightedQY(raw.QY, raw.UQY, rw.w, rw.Uw),
     QY_raw |-> raw.QY, UQY_raw |-> raw.UQY, w |-> rw.w, Uw |-> rw.Uw,
     N_emitted |-> N_emitted, N_Tot_empty |-> N_Tot_empty,
     N_Tot_sample |-> N_Tot_sample, den |-> QYDenominator(raw.QY, rw.w),
     reabs |-> rw]

\* lines 166-190 from the resolved windows and the baselines.
\* N_Tot_empty - N_Tot_sample is the int 0 when both scatter windows are
\* empty, and 1/(0**2) raises ZeroDivisionError (line 185); a w that no
\* branch assigned raises UnboundLocalError (line 187).
QYFromWindows(fluor, solvent, ss, se, fs, fe, es, ee, Scat_BL_Fluor, Scat_BL_Solvent, Em_BL_Fluor, rw) ==
    IF rw.err # "" THEN QYRaised(rw.err)
    ELSE IF PySlice(solvent.SpecCorrected, ss, se) = <<>>
            /\ PySlice(fluor.SpecCorrected, fs, fe) = <<>>
    THEN QYRaised("ZeroDivisionError")
    ELSE IF rw.w = None THEN QYRaised("UnboundLocalError")
    ELSE QYFromSums(WindowSum(fluor.SpecCorrected, Em_BL_Fluor, es, ee),
                    WindowSum(solvent.SpecCorrected, Scat_BL_Solvent, ss, se),
                    WindowSum(fluor.SpecCorrected, Scat_BL_Fluor, fs, fe),
                    RawQY(WindowSum(fluor.SpecCorrected, Em_BL_Fluor, es, ee),
                          WindowVariance(fluor.USpecCorrected, es, ee),
                          WindowSum(solvent.SpecCorrected, Scat_BL_Solvent, ss, se),
                          WindowVariance(solvent.USpecCorrected, ss, se),
                          WindowSum(fluor.SpecCorrected, Scat_BL_Fluor, fs, fe),
                          WindowVariance(fluor.USpecCorrected, fs, fe)),
                    rw)

\* lines 146-190 from the resolved indices
QYFromBaselines(fluor, solvent, ss, se, fs, fe, es, ee, Scat_BL_Fluor, Scat_BL_Solvent, Em_BL_Fluor, em_start, em_end, dilute, normWL) ==
    IF Scat_BL_Fluor.err # "" THEN QYRaised(Scat_BL_Fluor.err)
    ELSE IF Scat_BL_Solvent.err # "" THEN QYRaised(Scat_BL_Solvent.err)
    ELSE IF Em_BL_Fluor.err # "" THEN QYRaised(Em_BL_Fluor.err)
    ELSE QYFromWindows(fluor, solvent, ss, se, fs, fe, es, ee, Scat_BL_Fluor.val,
                       Scat_BL_Solvent.val, Em_BL_Fluor.val,
                       ReabsWeight(fluor, em_start, em_end, Em_BL_Fluor.val, dilute,
                                   normWL))

QYFromIndices(fluor, solvent, ss, se, fs, fe, es, ee, em_start, em_end, use_solvent_BL, dilute, normWL, avglen) ==
    QYFromBaselines(fluor, solvent, ss, se, fs, fe, es, ee,
        CalcStraightLine(fluor.WL, fluor.SpecCorrected, fs, fe, avglen),
        CalcStraightLine(solvent.WL, solvent.SpecCorrected, ss, se, avglen),
        IF use_solvent_BL THEN [err |-> "", val |-> solvent.SpecCorrected]
        ELSE CalcStraightLine(fluor.WL, fluor.SpecCorrected, es, ee, avglen),
        em_start, em_end, dilute, normWL)

\* CalculateQY_2MM(fluor, solvent, scat_start, scat_end, em_start, em_end,
\*                 use_solvent_BL, dilute, normWL, avglen=avglen)
CalculateQY_2MM(fluor, solvent, scat_start, scat_end, em_start, em_end, use_solvent_BL, dilute, normWL, avglen) ==
    IF solvent.WL = None THEN QYRaised("AttributeError")
    ELSE IF WLIndex(solvent.WL, scat_start).err # ""
    THEN QYRaised(WLIndex(solvent.WL, scat_start).err)
    ELSE IF WLIndex(solvent.WL, scat_end).err # ""
    THEN QYRaised(WLIndex(solvent.WL, scat_end).err)
    ELSE IF fluor.WL = None THEN QYRaised("AttributeError")
    ELSE IF WLIndex(fluor.WL, scat_start).err # ""
    THEN QYRaised(WLIndex(fluor.WL, scat_start).err)
    ELSE IF WLIndex(fluor.WL, scat_end).err # ""
    THEN QYRaised(WLIndex(fluor.WL, scat_end).err)
    ELSE IF WLIndex(fluor.WL, em_start).err # ""
    THEN QYRaised(WLIndex(fluor.WL, em_start).err)
    ELSE IF WLIndex(fluor.WL, em_end).err # ""
    THEN QYRaised(WLIndex(fluor.WL, em_end).err)
    ELSE QYFromIndices(fluor, solvent,
             WLIndex(solvent.WL, scat_start).idx, WLIndex(solvent.WL, scat_end).idx,
             WLIndex(fluor.WL, scat_start).idx, WLIndex(fluor.WL, scat_end).idx,
             WLIndex(fluor.WL, em_start).idx, WLIndex(fluor.WL, em_end).idx,
             em_start, em_end, use_solvent_BL, dilute, normWL, avglen)

---------------------------------------------------------------------------
(* The files of a session, and the arguments of the calls.                 *)

\* the wavelengths of a file that starts at w0 and steps by 2 nm
Axis(w0) == [i \in 1..NumSamples |-> w0 + 2 * (i - 1)]

\* raw counts over an axis: 1 count of background, a scatter peak of 3*hs
\* counts at 4 nm, and an emission band of he counts at 10 nm and he2 at 12 nm
Counts(axis, hs, he, he2) ==
    [i \in 1..Len(axis) |->
        Flt(1 + (IF axis[i] = 4 THEN 3 * hs ELSE 0) + (IF axis[i] = 10 THEN he ELSE 0)
              + (IF axis[i] = 12 THEN he2 ELSE 0), 1)]

\* what the reader makes of the file under analysis
Readings ==
    {PTI_Data("Unknown", "Unset", None, None, None)}
    \cup {PTI_Data(ft, rt, Axis(0), Counts(Axis(0), hs, he, he), Counts(Axis(0), hs, he, he)) :
            ft \in {"Session", "Trace"}, rt \in {"Emission", "Excitation"},
            hs \in 0..MaxCount, he \in 0..MaxCount}

\* the record of reading r after a plain correction of it
Corrected(r) == ApplyCorrFileToRaw(r, "emcorri", FALSE, 0, None, None).data

\* a solvent measurement: a scatter peak of 3*hs counts and no emission
SolventFile(hs) == PTI_Data("Trace", "Emission", Axis(0), Counts(Axis(0), hs, 0, 0), None)

\* the solvents offered: one never corrected, and corrected ones that
\* scatter as much as the brightest sample, or more
Solvents == {SolventFile(MaxCount + 1)}
            \cup {Corrected(SolventFile(hs)) : hs \in {MaxCount, MaxCount + 1}}

\* the dilute measurement, on the axis that starts at w0
DiluteFile(w0) == PTI_Data("Trace", "Emission", Axis(w0),
                           Counts(Axis(w0), 0, 2, 1), None)

Dilutes == {None, <<DiluteFile(0)>>, <<Corrected(DiluteFile(0))>>,
            <<Corrected(DiluteFile(2))>>}

NormWLs == {None, <<12>>}

\* synchronous and emission session scans offered as extracorr
ScanFile(rt) == PTI_Data("Session", rt, <<0, 18>>, <<Flt(4, 1), Flt(4, 1)>>,
                         <<Flt(2, 1), Flt(2, 1)>>)

ExtraCorrs == {None, <<ScanFile("Synchronous")>>, <<ScanFile("Emission")>>}

Factors == {None, <<2>>}

Keys == CorrFiles \cup {"bogus"}

\* the windows asked of CalculateQY_2MM, <<scat_start, scat_end, em_start,
\* em_end>> in nm: the scatter peak and the emission band, and that window
\* with one bound moved between two samples (5, 7, 11, 13), onto the other
\* bound (an empty window), to the first sample (0) or beyond the axis (99)
BaseWindow == <<4, 6, 10, 14>>

Windows ==
    {BaseWindow, [BaseWindow EXCEPT ![1] = 5]}
    \cup {[BaseWindow EXCEPT ![2] = x] : x \in {4, 7}}
    \cup {[BaseWindow EXCEPT ![3] = x] : x \in {0, 11}}
    \cup {[BaseWindow EXCEPT ![4] = x] : x \in {10, 13, 99}}

QYAvgLens == {1, 2}

---------------------------------------------------------------------------
(* The state machine: one record under analysis, and the last call made    *)
(* on it with what it returned.                                            *)

Idle == [op |-> "idle"]

Init == data \in Readings /\ ret = Idle

\* a call of ApplyCorrFileToRaw on the record
ApplyCorr ==
    /\ ret = Idle
    /\ \E key \in Keys, bckgnd \in 0..MaxBckgnd, extracorr \in ExtraCorrs,
          factor \in Factors :
         \E isliteral \in (IF key = "default" THEN BOOLEAN ELSE {FALSE}) :
            LET r == ApplyCorrFileToRaw(data, key, isliteral, bckgnd, extracorr, factor)
            IN  /\ data' = r.data
                /\ ret' = [op |-> "ApplyCorrFileToRaw", before |-> data, key |-> key,
                           isliteral |-> isliteral, bckgnd |-> bckgnd,
                           extracorr |-> extracorr, factor |-> factor,
                           outcome |-> r.outcome, value |-> r.value]

\* whether a call asks for a reabsorption estimate
WithReabs(dilute, normWL) ==
    dilute # None /\ normWL # None /\ dilute[1].SpecCorrected # None

\* record d carries no correction, or the plain one
PlainlyCorrected(d) ==
    d.SpecCorrected = None \/ d = Corrected(RegisterCorrSpec(d, None, None))

\* a call of CalculateQY_2MM with the record as the fluor measurement.  The
\* calls that pass a dilute measurement or a normalisation wavelength keep
\* to the base window and avglen 1: the windows and the averaging length
\* are varied on the calls that pass neither.  The reabsorption is
\* estimated for records under the plain correction: the fractions of the
\* estimate outgrow TLC's integers on the others.
CalcQY ==
    /\ ret = Idle
    /\ \E solvent \in Solvents, win \in Windows, use_solvent_BL \in BOOLEAN,
          dilute \in Dilutes, normWL \in NormWLs, avglen \in QYAvgLens :
         /\ (dilute # None \/ normWL # None) => win = BaseWindow /\ avglen = 1
         /\ WithReabs(dilute, normWL) => PlainlyCorrected(data)
         /\ ret' = [op |-> "CalculateQY_2MM", solvent |-> solvent,
                    scat_start |-> win[1], scat_end |-> win[2],
                    em_start |-> win[3], em_end |-> win[4],
                    use_solvent_BL |-> use_solvent_BL, dilute |-> dilute,
                    normWL |-> normWL, avglen |-> avglen,
                    res |-> CalculateQY_2MM(data, solvent, win[1], win[2], win[3],
                               win[4], use_solvent_BL, dilute, normWL, avglen)]
         /\ UNCHANGED data

\* the caller takes the result
Return == ret # Idle /\ ret' = Idle /\ UNCHANGED data

Next == ApplyCorr \/ CalcQY \/ Return

Spec == Init /\ [][Next]_vars

---------------------------------------------------------------------------
(* The baseline fit on its own: data is a wavelength axis and a spectrum   *)
(* over it, and the calls are those of CalcStraightLine.                   *)

\* the spectrum 2*WL + 3
LineSpectrum(WL) == [i \in 1..Len(WL) |-> Flt(2 * WL[i] + 3, 1)]

BaselineInputs ==
    {[WL |-> Axis(w0), spec |-> sp] :
        w0 \in {0, 2}, sp \in {LineSpectrum(Axis(0)), Counts(Axis(0), MaxCount, 1, 1)}}

InitBaseline == data \in BaselineInputs /\ ret = Idle

FitBaseline ==
    /\ ret = Idle
    /\ \E startidx \in 0..(NumSamples - 1), endidx \in 0..(NumSamples - 1),
          avglen \in 1..MaxAvgLen :
         ret' = [op |-> "CalcStraightLine", startidx |-> startidx, endidx |-> endidx,
                 avglen |-> avglen,
                 res |-> CalcStraightLine(data.WL, data.spec, startidx, endidx, avglen)]
    /\ UNCHANGED data

NextBaseline == FitBaseline \/ Return

SpecBaseline == InitBaseline /\ [][NextBaseline]_vars

---------------------------------------------------------------------------
(* The claims.  A call is judged in the state it leaves: ret holds the     *)
(* call and its outcome, data the record after it.                         *)

ApplyCall == ret.op = "ApplyCorrFileToRaw"

QYCall == ret.op = "CalculateQY_2MM"

BaselineCall == ret.op = "CalcStraightLine"

\* the outcomes of ApplyCorrFileToRaw other than a returned spectrum
ApplyFailures ==
    {"AttributeError", "TypeError", "BadFile", "NotCorrecting", "TypeMismatch",
     "ExtraNotSync"}

\* the record the call was made on holds a spectrum the corrector can read
Readable(d) == RawFields(d).err = ""

\* the correction file of the call's key is of another run type than the
\* record
RunTypesDiffer ==
    /\ ret.key \in CorrFiles \ {"default"}
    /\ ret.before.RunType \in {"Unknown", "Emission", "Excitation", "Synchronous"}
    /\ RunTypeValue(ret.before.RunType) # RunTypeValue(GroupRunType(ret.key))

\* C1: a call of ApplyCorrFileToRaw with a correction curve of another run
\* type than the spectrum fails: it returns no corrected spectrum, through
\* the run-type branch whenever the raw spectrum could be read, and the
\* record's corrected intensity and uncertainty are what they were before.
C1_RunTypeMismatchRejected ==
    (ApplyCall /\ RunTypesDiffer) =>
        /\ ret.outcome \in ApplyFailures
        /\ ret.value = None
        /\ Readable(ret.before) => ret.outcome = "TypeMismatch"
        /\ data.SpecCorrected = ret.before.SpecCorrected
        /\ data.USpecCorrected = ret.before.USpecCorrected

\* an excitation curve is refused on an emission spectrum that an earlier
\* call corrected, and that correction is still on the record
C1_Witness ==
    /\ ApplyCall
    /\ RunTypesDiffer
    /\ ret.key = "excorr"
    /\ ret.before.RunType = "Emission"
    /\ ret.outcome = "TypeMismatch"
    /\ ret.before.SpecCorrected # None
    /\ data.SpecCorrected = ret.before.SpecCorrected

\* C2: a call of ApplyCorrFileToRaw with the key 'default' and a zero
\* background on a readable spectrum succeeds, and the corrected intensity
\* and uncertainty are the raw ones at every sample.
C2_DefaultKeyIsIdentity ==
    (ApplyCall /\ ret.key = "default" /\ ret.bckgnd = 0 /\ ret.extracorr = None
        /\ ret.factor = None /\ Readable(ret.before)) =>
        /\ ret.outcome = "ok"
        /\ ret.value = <<RawFields(ret.before).rawspec, RawFields(ret.before).uspec>>

\* C3: a call of ApplyCorrFileToRaw with a key that is none of the known
\* ones fails in a way the caller can tell from a success: it returns no
\* corrected spectrum (through the no-curve branch whenever the raw spectrum
\* could be read) and the record is what it was.
C3_UnknownKeyRejected ==
    (ApplyCall /\ ret.key \notin CorrFiles) =>
        /\ ret.outcome \in ApplyFailures
        /\ ret.value = None
        /\ Readable(ret.before) => ret.outcome = "NotCorrecting"
        /\ data = ret.before

\* an unknown key is refused on a readable spectrum
C3_Witness ==
    /\ ApplyCall
    /\ ret.key \notin CorrFiles
    /\ Readable(ret.before)
    /\ ret.outcome = "NotCorrecting"
    /\ ret.value = None

\* the fluor or the solvent of the call was never corrected
UncorrectedInput == data.SpecCorrected = None \/ ret.solvent.SpecCorrected = None

\* C4: a call of CalculateQY_2MM whose fluor or solvent spectrum was never
\* corrected fails and returns no value, and it fails no later than the
\* baseline fit of the uncorrected spectrum: never with an error of the
\* integrals or of the quantum yield formula.
C4_UncorrectedInputRejected ==
    (QYCall /\ UncorrectedInput) =>
        /\ ret.res.outcome \in {"AttributeError", "ValueError", "IndexError", "TypeError"}
        /\ ret.res.value = None

\* a corrected fluor with a solvent never corrected: the call fails at the
\* solvent's baseline
C4_Witness ==
    /\ QYCall
    /\ data.SpecCorrected # None
    /\ ret.solvent.SpecCorrected = None
    /\ ret.res.outcome = "TypeError"

\* C5: CalculateQY_2MM never returns a pair computed by dividing by a zero
\* denominator: when it returns (here from a finite count of emitted
\* photons), N_Tot_empty differs from N_Tot_sample and 1 - w + w*QY is not
\* zero.
C5_NoZeroDenominator ==
    (QYCall /\ ret.res.outcome = "ok" /\ IsFinite(ret.res.N_emitted)) =>
        /\ ret.res.N_Tot_empty # ret.res.N_Tot_sample
        /\ ret.res.den # Zero

\* the averaging windows of the call lie inside the spectrum
WindowsInRange ==
    /\ ret.startidx - ret.avglen >= 0
    /\ ret.endidx + ret.avglen < Len(data.WL)

\* C6: a call of CalcStraightLine with startidx - avglen < 0 or
\* endidx + avglen >= N ends in an error, never in a baseline.
C6_OutOfRangeWindowRejected ==
    (BaselineCall /\ ~WindowsInRange) => ret.res.err # ""

\* C7: on the spectrum 2*WL + 3, a call of CalcStraightLine whose windows
\* lie inside the spectrum returns 2*WL[i] + 3 at every index i.
C7_LineReproduced ==
    (BaselineCall /\ data.spec = LineSpectrum(data.WL) /\ WindowsInRange
        /\ ret.startidx < ret.endidx) =>
        /\ ret.res.err = ""
        /\ ret.res.val = LineSpectrum(data.WL)

\* x lies inside the range of axis WL
InsideAxis(WL, x) == WL # None /\ WL[1] <= x /\ x <= WL[Len(WL)]

\* C8: in CalculateQY_2MM the resolution of a window bound that lies inside
\* the range of the axis never fails.
C8_ResolutionNeverFails ==
    (QYCall /\ \A x \in {ret.scat_start, ret.scat_end, ret.em_start, ret.em_end} :
                    InsideAxis(data.WL, x) /\ InsideAxis(ret.solvent.WL, x)) =>
        ret.res.outcome # "ValueError"

\* C9: a call of CalculateQY_2MM without a dilute spectrum or without a
\* normalisation wavelength used w = 0 and Uw = 0, and returns the raw
\* quantum yield and its uncertainty (stated of the calls with a non-empty
\* emission window whose raw quantum yield is a finite number).
C9_NoReabsorptionIsNoOp ==
    (QYCall /\ (ret.dilute = None \/ ret.normWL = None) /\ ret.res.outcome = "ok"
        /\ ret.em_start < ret.em_end
        /\ IsFinite(ret.res.QY_raw) /\ IsFinite(ret.res.UQY_raw)) =>
        /\ ret.res.w = Zero
        /\ ret.res.Uw = Zero
        /\ FEq(ret.res.value[1], ret.res.QY_raw)
        /\ FEq(ret.res.value[2], ret.res.UQY_raw)

\* C10: a call of ApplyCorrFileToRaw that fails, on whatever path, leaves
\* the record exactly as it was; a call that succeeds leaves on the record
\* the very spectrum it returns, the end result of the whole correction.
C10_CorrectedFieldsWrittenLast ==
    ApplyCall =>
        /\ ret.outcome # "ok" => data = ret.before
        /\ ret.outcome = "ok" =>
              /\ <<data.SpecCorrected, data.USpecCorrected>> = ret.value
              /\ data = RegisterCorrSpec(ret.before, ret.value[1], ret.value[2])

\* an extracorr that is no synchronous scan is refused after the curve was
\* applied, and the record keeps the correction an earlier call registered
C10_Witness ==
    /\ ApplyCall
    /\ ret.outcome = "ExtraNotSync"
    /\ ret.before.SpecCorrected # None
    /\ data = ret.before

\* the call of ret made on the record as the reader left it: the raw fields
\* alone, no correction registered
FromRawAlone ==
    ApplyCorrFileToRaw(RegisterCorrSpec(ret.before, None, None), ret.key,
                       ret.isliteral, ret.bckgnd, ret.extracorr, ret.factor)

\* the call of ret made once more on the record it left
Repeated ==
    ApplyCorrFileToRaw(data, ret.key, ret.isliteral, ret.bckgnd, ret.extracorr,
                       ret.factor)

\* C11: after a call of ApplyCorrFileToRaw the corrected fields are those of
\* the most recent successful call, computed from the raw fields alone: a
\* successful call leaves what the same call leaves on a record that was
\* never corrected, a failed one leaves what the record held, and the same
\* call made a second time leaves the record as the first left it.
C11_LatestCorrectionFromRaw ==
    ApplyCall =>
        /\ ret.outcome = "ok" =>
              /\ FromRawAlone.outcome = "ok"
              /\ <<data.SpecCorrected, data.USpecCorrected>> = FromRawAlone.value
              /\ Repeated.outcome = "ok"
              /\ Repeated.data = data
        /\ ret.outcome # "ok" =>
              /\ data.SpecCorrected = ret.before.SpecCorrected
              /\ data.USpecCorrected = ret.before.USpecCorrected

\* a successful call on a record that an earlier call corrected otherwise:
\* the earlier result is replaced
C11_Witness ==
    /\ ApplyCall
    /\ ret.outcome = "ok"
    /\ ret.before.SpecCorrected # None
    /\ ret.before.SpecCorrected # data.SpecCorrected
    /\ <<data.SpecCorrected, data.USpecCorrected>> = FromRawAlone.value

\* the call of ret passed a dilute measurement and a normalisation
\* wavelength, and the dilute measurement was never corrected
DiluteUncorrected ==
    /\ ret.dilute # None
    /\ ret.normWL # None
    /\ ret.dilute[1].SpecCorrected = None

\* C12: a call of CalculateQY_2MM that reaches the reabsorption-weighted
\* formula has assigned w and Uw: it never ends in the error of an
\* unassigned local, and when a dilute measurement and a normalisation
\* wavelength are passed but the dilute measurement was never corrected,
\* a call that gets as far as the formula returns with w = 0 and Uw = 0.
C12_WeightAlwaysAssigned ==
    QYCall =>
        /\ ret.res.outcome # "UnboundLocalError"
        /\ (DiluteUncorrected
               /\ ret.res.outcome \notin {"AttributeError", "ValueError", "IndexError",
                                          "TypeError", "ZeroDivisionError"}) =>
              /\ ret.res.outcome = "ok"
              /\ ret.res.w = Zero
              /\ ret.res.Uw = Zero

\* the index on the dilute axis of the call's wavelength x
DiluteIdx(x) == WLIndex(ret.dilute[1].WL, x).idx

\* C13: in a call that estimated the reabsorption, the dilute integral and
\* its uncertainty are both summed over the emission window resolved on the
\* dilute measurement's own axis.
C13_DiluteSummedOverOwnWindow ==
    (QYCall /\ ret.res.outcome = "ok" /\ WithReabs(ret.dilute, ret.normWL)) =>
        /\ ret.res.reabs.integ_Dilute =
              NormalisedSum(ret.dilute[1].SpecCorrected, DiluteIdx(ret.em_start),
                            DiluteIdx(ret.em_end), DiluteIdx(ret.normWL[1]))
        /\ ret.res.reabs.Uinteg_Dilute =
              NormalisedSquares(ret.dilute[1].SpecCorrected, DiluteIdx(ret.em_start),
                                DiluteIdx(ret.em_end), DiluteIdx(ret.normWL[1]))

===========================================================================
